---- MODULE Spec2Model ----
(***************************************************************************)
(* Model of demo.py: the hybrid-search demo driver (main), its helpers     *)
(* configure_clients, setup_database, wait_for_index and                   *)
(* create_indexes_if_needed, and the external collaborators (document      *)
(* store, embedding provider, console) they call.  The helpers are also    *)
(* driven directly, as a unit test would call them: wait_for_index with a  *)
(* scripted status source, setup_database twice in a row and               *)
(* create_indexes_if_needed twice in a row.                                *)
(***************************************************************************)
EXTENDS Integers, Sequences, FiniteSets, TLC

\* ---------------------------------------------------------------- bounds
MaxTimeout == 12    \* largest timeout argument passed to wait_for_index directly
MaxN == 3           \* largest number of leading not-ready polls of a scripted source
MaxResults == 6     \* longest document sequence the aggregate call returns

\* ------------------------------------------------------ program constants
NumMovies == 5          \* the literal sample records
DefaultTimeout == 300   \* wait_for_index(..., timeout: int = 300)
SleepInterval == 5      \* time.sleep(5)
PipelineLimit == 5      \* {"$limit": 5}, the last stage of the pipeline

TEXT_INDEX_NAME == "movies_text_index"
VECTOR_INDEX_NAME == "movies_vector_index"
IndexNames == {TEXT_INDEX_NAME, VECTOR_INDEX_NAME}

\* ------------------------------------------------------------------ errors
Err(c, m) == [class |-> c, msg |-> m]
NoErr == Err("None", "")
UnrecognizedStage == "Unrecognized pipeline stage name: '$rankFusion'"
OpFailure == Err("OperationFailure", "operation failed")
ConnFailure == Err("ConnectionFailure", "server unreachable")
UnsupportedFusion == Err("OperationFailure", UnrecognizedStage)
ProviderError == Err("OpenAIError", "embedding request failed")
\* what a call to the store raises when it fails
StoreErrors == {OpFailure, ConnFailure}

\* ------------------------------------------------------------ environment
\* os.getenv results: None, the empty string, or a value
MongoUris == {"None", "", "not-a-uri", "mongodb://host"}
AzureKeys == {"None", "", "key"}
Falsy(v) == v \in {"None", ""}

\* get_embedding: the provider's vector for a text
get_embedding(text) == <<"vec", text>>

\* the movies list of setup_database, before the embeddings are attached
MoviesLiteral == [i \in 1..NumMovies |-> [title |-> i, plot_embedding |-> <<>>]]
SampleDocs == [i \in 1..NumMovies |-> [title |-> i, plot_embedding |-> get_embedding(i)]]

\* the collection before the run: absent, empty, seeded, or left partial
InitColls == {"absent", "empty", "seeded", "partial"}
InitExists(k) == k # "absent"
InitDocs(k) == IF k = "seeded" THEN SampleDocs
               ELSE IF k = "partial" THEN SubSeq(SampleDocs, 1, 2)
               ELSE <<>>

\* list_search_indexes(name=...) results: at most one entry
Statuses == {"PENDING", "BUILDING", "FAILED", "READY"}
Entry(s, q) == [status |-> s, queryable |-> q]
Listings == {<<>>} \cup {<<Entry(s, q)>> : s \in Statuses, q \in BOOLEAN}
\* mutant: any listed index counts as ready
IsReady_anyListing(ix) == Len(ix) > 0
\* mutant: an empty listing counts as ready
IsReady_orEmpty(ix) == Len(ix) = 0 \/ ix[1].status = "READY" \/ ix[1].queryable = TRUE
IsReady(ix) == Len(ix) > 0 /\ (ix[1].status = "READY" \/ ix[1].queryable = TRUE)

\* status sources: scripted (not ready for the first n polls, then ready),
\* never ready, or unconstrained
Sources == {[mode |-> "after", n |-> n] : n \in 0..MaxN}
             \cup {[mode |-> "never", n |-> 0], [mode |-> "free", n |-> 0]}
\* what poll number k of the source may answer: a listing, or an error raised
Answers(src, k) ==
    IF src.mode = "after"
    THEN {[err |-> NoErr, listing |-> IF k <= src.n THEN <<Entry("BUILDING", FALSE)>>
                                                    ELSE <<Entry("READY", TRUE)>>]}
    ELSE IF src.mode = "never"
    THEN {[err |-> NoErr, listing |-> l] : l \in {x \in Listings : ~IsReady(x)}}
           \cup {[err |-> OpFailure, listing |-> <<>>]}
    ELSE {[err |-> NoErr, listing |-> l] : l \in Listings}
           \cup {[err |-> e, listing |-> <<>>] : e \in StoreErrors}

\* scored documents the aggregate call returns; good = has the fields rendered
ScoredDocs == {[title |-> 1, score |-> 164, good |-> TRUE],
               [title |-> 2, score |-> 113, good |-> TRUE],
               [title |-> 3, score |-> 0, good |-> FALSE]}
RECURSIVE SeqsUpTo(_, _)
SeqsUpTo(S, n) == IF n = 0 THEN {<<>>}
                  ELSE LET prev == SeqsUpTo(S, n - 1)
                       IN prev \cup {Append(s, x) : s \in {p \in prev : Len(p) = n - 1}, x \in S}

\* input(...) answers, as character sequences; str.lower()
PromptAnswers == {<<"y","e","s">>, <<"Y","E","S">>, <<"Y","e","s">>, <<"n","o">>,
                  <<>>, <<"y">>, <<"y","e","s"," ">>}
LowerChar(c) == CASE c = "Y" -> "y" [] c = "E" -> "e" [] c = "S" -> "s"
                  [] c = "N" -> "n" [] c = "O" -> "o" [] OTHER -> c
Lower(s) == [i \in DOMAIN s |-> LowerChar(s[i])]
Yes == <<"y","e","s">>

\* ------------------------------------------------------------------- state
VARIABLES
    harness,        \* what drives the code: main, or a helper called directly
    pc,             \* position in the code
    exc,            \* the error raised last (NoErr: none)
    failedAt,       \* the position that raised it
    rets,           \* outcomes of the calls the driver made, in order
    init_coll,      \* the collection before the run
    init_idx,       \* the search indexes before the run
    collExists, docs, searchIdx,            \* the store
    cnt,            \* calls issued to the collaborators (per driver call)
    mongo_uri, azure_key, cfg_client,       \* configure_clients locals
    mongo_client,                           \* main's handle
    movies,                                 \* setup_database local
    existing_indexes,                       \* create_indexes_if_needed local
    source, w_name, w_timeout, w_elapsed, w_polls, indexes,  \* wait_for_index
    w_last,         \* what the last status query raised (NoErr: it returned)
    polled,         \* index names a status query was issued for (per driver call)
    waited,         \* index names wait_for_index returned True for
    results, out, diag, user_input          \* main: query, console, prompt

ctl == <<harness, pc, exc, failedAt, rets>>
initv == <<init_coll, init_idx>>
store == <<collExists, docs, searchIdx>>
cfgv == <<mongo_uri, azure_key, cfg_client, mongo_client>>
waitv == <<source, w_name, w_timeout, w_elapsed, w_polls, indexes, w_last>>
idxlog == <<polled, waited>>
qv == <<results, out, diag, user_input>>
vars == <<ctl, initv, store, cnt, cfgv, movies, existing_indexes, idxlog, waitv, qv>>

CallNames == {"MongoClient", "ping", "list_collection_names", "count_documents",
              "drop", "embed", "insert_many", "list_search_indexes",
              "create_text", "create_vector", "query_embed", "aggregate",
              "input", "teardown_drop", "close"}
ZeroCnt == [c \in CallNames |-> 0]
Bump(c) == cnt' = [cnt EXCEPT ![c] = @ + 1]

Harnesses == {"main", "poll", "seed2", "idx2"}
StartPc(h) == CASE h = "main" -> "cc_getenv"
                [] h = "poll" -> "w_check"
                [] h = "seed2" -> "sd_check"
                [] h = "idx2" -> "ci_list"

Init ==
    /\ harness \in Harnesses
    /\ pc = StartPc(harness)
    /\ exc = NoErr /\ failedAt = "" /\ rets = <<>>
    /\ init_coll \in (IF harness = "poll" THEN {"seeded"} ELSE InitColls)
    \* search indexes live on a collection: none without one
    /\ init_idx \in (IF harness = "poll" THEN {{TEXT_INDEX_NAME}}
                     ELSE IF init_coll = "absent" THEN {{}}
                     ELSE SUBSET IndexNames)
    /\ collExists = InitExists(init_coll) /\ docs = InitDocs(init_coll)
    /\ searchIdx = init_idx
    /\ cnt = ZeroCnt
    /\ mongo_uri = "None" /\ azure_key = "None" /\ cfg_client = "None"
    /\ mongo_client = "None"
    /\ movies = <<>>
    /\ existing_indexes = {}
    /\ source \in (IF harness = "poll" THEN Sources ELSE {[mode |-> "free", n |-> 0]})
    /\ w_name = (IF harness = "poll" THEN TEXT_INDEX_NAME ELSE "")
    /\ w_timeout \in (IF harness = "poll" THEN 0..MaxTimeout ELSE {DefaultTimeout})
    /\ w_elapsed = 0 /\ w_polls = 0 /\ indexes = <<>> /\ w_last = NoErr
    /\ polled = {} /\ waited = {}
    /\ results = <<>> /\ out = <<>> /\ diag = <<>> /\ user_input = <<>>

\* --------------------------------------------------------- call and return
\* an exception leaves the function: into main's except clauses, or out of
\* the helper to the driver
Raise(e, where) ==
    /\ exc' = e /\ failedAt' = where
    /\ IF harness = "main"
       THEN pc' = "main_except" /\ rets' = rets
       ELSE pc' = "h_ret" /\ rets' = Append(rets, e)
    /\ UNCHANGED harness

\* a helper returns: main goes on at nextPc, a direct call ends
ReturnTo(nextPc) ==
    /\ IF harness = "main"
       THEN pc' = nextPc /\ rets' = rets
       ELSE pc' = "h_ret" /\ rets' = Append(rets, NoErr)
    /\ UNCHANGED <<harness, exc, failedAt>>

Goto(p) == pc' = p /\ UNCHANGED <<harness, exc, failedAt, rets>>

\* ------------------------------------------------------- configure_clients
ValueErr == Err("ValueError", "Please set all required environment variables")
ConfigErr == Err("ConfigurationError", "invalid URI")

\* mutant: only the connection URI is checked
cc_getenv_uriOnly ==
    /\ pc = "cc_getenv"
    /\ \E u \in MongoUris, k \in AzureKeys :
         /\ mongo_uri' = u /\ azure_key' = k
         /\ IF Falsy(u)
            THEN Raise(ValueErr, "cc_getenv")
            ELSE Goto("cc_client")
    /\ UNCHANGED <<initv, store, cnt, cfg_client, mongo_client, movies,
                   existing_indexes, idxlog, waitv, qv>>

\* load_dotenv, os.getenv and the check of the two secrets
cc_getenv ==
    /\ pc = "cc_getenv"
    /\ \E u \in MongoUris, k \in AzureKeys :
         /\ mongo_uri' = u /\ azure_key' = k
         /\ IF Falsy(u) \/ Falsy(k)
            THEN Raise(ValueErr, "cc_getenv")
            ELSE Goto("cc_client")
    /\ UNCHANGED <<initv, store, cnt, cfg_client, mongo_client, movies,
                   existing_indexes, idxlog, waitv, qv>>

\* mongo_client = MongoClient(mongo_uri)
cc_client ==
    /\ pc = "cc_client"
    /\ Bump("MongoClient")
    /\ IF mongo_uri = "not-a-uri"
       THEN Raise(ConfigErr, "cc_client") /\ UNCHANGED cfg_client
       ELSE cfg_client' = "client" /\ Goto("cc_ping")
    /\ UNCHANGED <<initv, store, mongo_uri, azure_key, mongo_client, movies,
                   existing_indexes, idxlog, waitv, qv>>

\* mongo_client.admin.command('ping')
cc_ping ==
    /\ pc = "cc_ping"
    /\ Bump("ping")
    /\ \/ Goto("cc_return")
       \/ \E e \in StoreErrors : Raise(e, "cc_ping")
    /\ UNCHANGED <<initv, store, cfgv, movies, existing_indexes, idxlog, waitv, qv>>

\* return (mongo_client, AzureOpenAI(...), deployment); main binds the handle
cc_return ==
    /\ pc = "cc_return"
    /\ mongo_client' = cfg_client
    /\ Goto("sd_check")
    /\ UNCHANGED <<initv, store, cnt, mongo_uri, azure_key, cfg_client, movies,
                   existing_indexes, idxlog, waitv, qv>>

\* ---------------------------------------------------------- setup_database
\* coll_name in db.list_collection_names()
sd_check ==
    /\ pc = "sd_check"
    /\ Bump("list_collection_names")
    /\ \/ IF collExists THEN Goto("sd_count") ELSE Goto("sd_drop")
       \/ \E e \in StoreErrors : Raise(e, "sd_check")
    /\ UNCHANGED <<initv, store, cfgv, movies, existing_indexes, idxlog, waitv, qv>>

\* mutant: the skip test never holds for the sample data
sd_count_neverSkips ==
    /\ pc = "sd_count"
    /\ Bump("count_documents")
    /\ \/ IF Len(docs) > NumMovies THEN ReturnTo("ci_list") ELSE Goto("sd_drop")
       \/ \E e \in StoreErrors : Raise(e, "sd_count")
    /\ UNCHANGED <<initv, store, cfgv, movies, existing_indexes, idxlog, waitv, qv>>

\* ... and collection.count_documents({}) > 0: skip, or go on to seed
sd_count ==
    /\ pc = "sd_count"
    /\ Bump("count_documents")
    /\ \/ IF Len(docs) > 0 THEN ReturnTo("ci_list") ELSE Goto("sd_drop")
       \/ \E e \in StoreErrors : Raise(e, "sd_count")
    /\ UNCHANGED <<initv, store, cfgv, movies, existing_indexes, idxlog, waitv, qv>>

\* collection.drop(); movies = [...]; the store drops a collection together
\* with its search indexes
sd_drop ==
    /\ pc = "sd_drop"
    /\ Bump("drop")
    /\ \/ /\ collExists' = FALSE /\ docs' = <<>> /\ searchIdx' = {}
          /\ movies' = MoviesLiteral
          /\ Goto("sd_embed")
       \/ /\ \E e \in StoreErrors : Raise(e, "sd_drop")
          /\ UNCHANGED <<store, movies>>
    /\ UNCHANGED <<initv, cfgv, existing_indexes, idxlog, waitv, qv>>

\* the movie the loop is at: the first one without an embedding
NextMovie(ms) == Cardinality({i \in DOMAIN ms : ms[i].plot_embedding # <<>>}) + 1

\* mutant: the insert is inside the loop, after the first embedding
sd_embed_insertsEarly ==
    /\ pc = "sd_embed"
    /\ Bump("embed")
    /\ LET i == NextMovie(movies) IN
       \/ /\ movies' = [movies EXCEPT ![i].plot_embedding = get_embedding(movies[i].title)]
          /\ Goto("sd_insert")
       \/ /\ Raise(ProviderError, "sd_embed")
          /\ UNCHANGED movies
    /\ UNCHANGED <<initv, store, cfgv, existing_indexes, idxlog, waitv, qv>>

\* for movie in movies: movie["plot_embedding"] = get_embedding(...)
sd_embed ==
    /\ pc = "sd_embed"
    /\ Bump("embed")
    /\ LET i == NextMovie(movies) IN
       \/ /\ movies' = [movies EXCEPT ![i].plot_embedding = get_embedding(movies[i].title)]
          /\ IF i = Len(movies) THEN Goto("sd_insert") ELSE Goto("sd_embed")
       \/ /\ Raise(ProviderError, "sd_embed")
          /\ UNCHANGED movies
    /\ UNCHANGED <<initv, store, cfgv, existing_indexes, idxlog, waitv, qv>>

\* collection.insert_many(movies); a failing insert may have stored a prefix
sd_insert ==
    /\ pc = "sd_insert"
    /\ Bump("insert_many")
    /\ \/ /\ docs' = docs \o movies /\ collExists' = TRUE
          /\ ReturnTo("ci_list")
       \/ \E e \in StoreErrors, k \in 0..Len(movies) :
            /\ docs' = docs \o SubSeq(movies, 1, k)
            /\ collExists' = (collExists \/ k > 0)
            /\ Raise(e, "sd_insert")
    /\ UNCHANGED <<initv, searchIdx, cfgv, movies, existing_indexes, idxlog, waitv, qv>>

\* ---------------------------------------------------------- wait_for_index
TimeoutErr == Err("TimeoutError", "did not become ready")
FreeSource == [mode |-> "free", n |-> 0]

\* start_time = time.time(): the call starts with nothing elapsed
StartWait(name) ==
    /\ w_name' = name /\ w_timeout' = DefaultTimeout
    /\ w_elapsed' = 0 /\ w_polls' = 0 /\ indexes' = <<>> /\ w_last' = NoErr
    /\ source' \in Sources

\* the locals of a finished call are gone (kept when the call is the driver's)
EndWait ==
    IF harness = "poll"
    THEN UNCHANGED waitv
    ELSE /\ w_name' = "" /\ w_timeout' = DefaultTimeout
         /\ w_elapsed' = 0 /\ w_polls' = 0 /\ indexes' = <<>> /\ w_last' = NoErr
         /\ source' = FreeSource

\* mutant: the budget running out ends the call without an error
w_check_returnsOnTimeout ==
    /\ pc = "w_check"
    /\ IF w_elapsed < w_timeout
       THEN Goto("w_poll") /\ UNCHANGED waitv
       ELSE /\ EndWait
            /\ IF w_name = TEXT_INDEX_NAME /\ harness # "poll"
               THEN Goto("ci_vec")
               ELSE ReturnTo("q_embed")
    /\ UNCHANGED <<initv, store, cnt, cfgv, movies, existing_indexes, idxlog, qv>>

\* mutant: the loop test lets a poll through at the budget (<= for <)
w_check_inclusive ==
    /\ pc = "w_check"
    /\ IF w_elapsed <= w_timeout
       THEN Goto("w_poll") /\ UNCHANGED waitv
       ELSE Raise(TimeoutErr, "w_check") /\ EndWait
    /\ UNCHANGED <<initv, store, cnt, cfgv, movies, existing_indexes, idxlog, qv>>

\* while time.time() - start_time < timeout: ... else raise TimeoutError
w_check ==
    /\ pc = "w_check"
    /\ IF w_elapsed < w_timeout
       THEN Goto("w_poll") /\ UNCHANGED waitv
       ELSE Raise(TimeoutErr, "w_check") /\ EndWait
    /\ UNCHANGED <<initv, store, cnt, cfgv, movies, existing_indexes, idxlog, qv>>

\* what the store can answer for the index: nothing is listed for a name it
\* does not hold
StoreAnswers(src, k, name) ==
    {a \in Answers(src, k) : name \in searchIdx \/ a.listing = <<>>}

\* the status query answered: the locals after it
Queried(e, l) ==
    /\ indexes' = l /\ w_polls' = w_polls + 1 /\ w_last' = e
    /\ UNCHANGED <<source, w_name, w_timeout, w_elapsed>>

\* return True: back in create_indexes_if_needed, or out of it after the
\* vector index
WaitReturns ==
    IF w_name = TEXT_INDEX_NAME /\ harness # "poll"
    THEN Goto("ci_vec")
    ELSE ReturnTo("q_embed")

\* mutant: no except clause, an OperationFailure of the query propagates
w_poll_noExcept ==
    /\ pc = "w_poll"
    /\ polled' = polled \cup {w_name}
    /\ \E a \in StoreAnswers(source, w_polls + 1, w_name) :
         IF a.err = NoErr
         THEN IF IsReady(a.listing)
              THEN /\ waited' = waited \cup {w_name}
                   /\ IF harness = "poll" THEN Queried(NoErr, a.listing) ELSE EndWait
                   /\ WaitReturns
              ELSE /\ Queried(NoErr, a.listing)
                   /\ Goto("w_sleep")
                   /\ UNCHANGED waited
         ELSE /\ IF harness = "poll" THEN Queried(a.err, indexes) ELSE EndWait
              /\ Raise(a.err, "w_poll")
              /\ UNCHANGED waited
    /\ UNCHANGED <<initv, store, cnt, cfgv, movies, existing_indexes, qv>>

\* indexes = list(coll.list_search_indexes(name=index_name)); ready: return
\* True; not ready, or OperationFailure: sleep; any other error propagates
w_poll ==
    /\ pc = "w_poll"
    /\ polled' = polled \cup {w_name}
    /\ \E a \in StoreAnswers(source, w_polls + 1, w_name) :
         IF a.err = NoErr
         THEN IF IsReady(a.listing)
              THEN /\ waited' = waited \cup {w_name}
                   /\ IF harness = "poll" THEN Queried(NoErr, a.listing) ELSE EndWait
                   /\ WaitReturns
              ELSE /\ Queried(NoErr, a.listing)
                   /\ Goto("w_sleep")
                   /\ UNCHANGED waited
         ELSE IF a.err.class = "OperationFailure"
              THEN /\ Queried(a.err, indexes)
                   /\ Goto("w_sleep")
                   /\ UNCHANGED waited
              ELSE /\ IF harness = "poll" THEN Queried(a.err, indexes) ELSE EndWait
                   /\ Raise(a.err, "w_poll")
                   /\ UNCHANGED waited
    /\ UNCHANGED <<initv, store, cnt, cfgv, movies, existing_indexes, qv>>

\* time.sleep(5)
w_sleep ==
    /\ pc = "w_sleep"
    /\ w_elapsed' = w_elapsed + SleepInterval
    /\ Goto("w_check")
    /\ UNCHANGED <<initv, store, cnt, cfgv, movies, existing_indexes, idxlog,
                   source, w_name, w_timeout, w_polls, indexes, w_last, qv>>

\* ------------------------------------------------ create_indexes_if_needed
\* existing_indexes = [idx['name'] for idx in collection.list_search_indexes()]
ci_list ==
    /\ pc = "ci_list"
    /\ Bump("list_search_indexes")
    /\ \/ existing_indexes' = searchIdx /\ Goto("ci_text")
       \/ /\ \E e \in StoreErrors : Raise(e, "ci_list")
          /\ UNCHANGED existing_indexes
    /\ UNCHANGED <<initv, store, cfgv, movies, idxlog, waitv, qv>>

\* mutant: the index is created whether or not it is listed
EnsureIndex_alwaysCreates(name, call, here, next) ==
    /\ Bump(call)
    /\ \/ /\ searchIdx' = searchIdx \cup {name}
          /\ StartWait(name)
          /\ Goto("w_check")
       \/ /\ \E e \in StoreErrors : Raise(e, here)
          /\ UNCHANGED <<searchIdx, waitv>>

\* mutant: the index is created but its readiness is not waited for
EnsureIndex_noWait(name, call, here, next) ==
    IF name \notin existing_indexes
    THEN /\ Bump(call)
         /\ \/ /\ searchIdx' = searchIdx \cup {name}
               /\ IF next = "return" THEN ReturnTo("q_embed") ELSE Goto(next)
               /\ UNCHANGED waitv
            \/ /\ \E e \in StoreErrors : Raise(e, here)
               /\ UNCHANGED <<searchIdx, waitv>>
    ELSE /\ IF next = "return" THEN ReturnTo("q_embed") ELSE Goto(next)
         /\ UNCHANGED <<searchIdx, waitv, cnt>>

\* if name not in existing_indexes: create_search_index, wait_for_index
EnsureIndex(name, call, here, next) ==
    IF name \notin existing_indexes
    THEN /\ Bump(call)
         /\ \/ /\ searchIdx' = searchIdx \cup {name}
               /\ StartWait(name)
               /\ Goto("w_check")
            \/ /\ \E e \in StoreErrors : Raise(e, here)
               /\ UNCHANGED <<searchIdx, waitv>>
    ELSE /\ IF next = "return" THEN ReturnTo("q_embed") ELSE Goto(next)
         /\ UNCHANGED <<searchIdx, waitv, cnt>>

ci_text ==
    /\ pc = "ci_text"
    /\ EnsureIndex(TEXT_INDEX_NAME, "create_text", "ci_text", "ci_vec")
    /\ UNCHANGED <<initv, collExists, docs, cfgv, movies, existing_indexes, idxlog, qv>>

ci_vec ==
    /\ pc = "ci_vec"
    /\ EnsureIndex(VECTOR_INDEX_NAME, "create_vector", "ci_vec", "return")
    /\ UNCHANGED <<initv, collExists, docs, cfgv, movies, existing_indexes, idxlog, qv>>

\* -------------------------------------------------------------------- main
KeyErr == Err("KeyError", "'scoreDetails'")
EOFErr == Err("EOFError", "EOF when reading a line")

\* query_embedding = get_embedding(azure_client, query, embed_deployment)
q_embed ==
    /\ pc = "q_embed"
    /\ Bump("query_embed")
    /\ \/ Goto("q_aggregate")
       \/ Raise(ProviderError, "q_embed")
    /\ UNCHANGED <<initv, store, cfgv, movies, existing_indexes, idxlog, waitv, qv>>

\* results = list(collection.aggregate(pipeline)): whatever the store returns
q_aggregate ==
    /\ pc = "q_aggregate"
    /\ Bump("aggregate")
    /\ \/ /\ results' \in SeqsUpTo(ScoredDocs, MaxResults)
          /\ Goto("q_render")
       \/ /\ \E e \in StoreErrors \cup {UnsupportedFusion} : Raise(e, "q_aggregate")
          /\ UNCHANGED results
    /\ UNCHANGED <<initv, store, cfgv, movies, existing_indexes, idxlog, waitv,
                   out, diag, user_input>>

\* print(f"  Score: {doc['scoreDetails']['value']:.4f} | {doc['title']} ...")
Line(doc) == [score |-> doc.score, title |-> doc.title]

\* mutant: the loop stops after the output limit
q_render_truncating ==
    /\ pc = "q_render"
    /\ LET i == Len(out) + 1 IN
       IF i > Len(results) \/ i > PipelineLimit
       THEN Goto("main_finally") /\ UNCHANGED out
       ELSE IF results[i].good
            THEN out' = Append(out, Line(results[i])) /\ Goto("q_render")
            ELSE Raise(KeyErr, "q_render") /\ UNCHANGED out
    /\ UNCHANGED <<initv, store, cnt, cfgv, movies, existing_indexes, idxlog, waitv,
                   results, diag, user_input>>

\* for doc in results: print(...); a document without the fields: KeyError
q_render ==
    /\ pc = "q_render"
    /\ LET i == Len(out) + 1 IN
       IF i > Len(results)
       THEN Goto("main_finally") /\ UNCHANGED out
       ELSE IF results[i].good
            THEN out' = Append(out, Line(results[i])) /\ Goto("q_render")
            ELSE Raise(KeyErr, "q_render") /\ UNCHANGED out
    /\ UNCHANGED <<initv, store, cnt, cfgv, movies, existing_indexes, idxlog, waitv,
                   results, diag, user_input>>

\* except (ValueError, ConfigurationError, ConnectionFailure, OperationFailure,
\* TimeoutError): FATAL ERROR; except Exception: unexpected error
\* mutant: OperationFailure is missing from the first except clause
FatalClasses_noOperationFailure == {"ValueError", "ConfigurationError", "ConnectionFailure",
                                    "TimeoutError"}
FatalClasses == {"ValueError", "ConfigurationError", "ConnectionFailure",
                 "OperationFailure", "TimeoutError"}
Handler(e) == IF e.class \in FatalClasses THEN "FATAL ERROR"
              ELSE "An unexpected error occurred"

main_except ==
    /\ pc = "main_except"
    /\ diag' = Append(diag, [template |-> Handler(exc), text |-> exc.msg])
    /\ Goto("main_finally")
    /\ UNCHANGED <<initv, store, cnt, cfgv, movies, existing_indexes, idxlog, waitv,
                   results, out, user_input>>

\* main ends: normally, or by an error raised inside the finally block
EndMain(e) == pc' = "done" /\ rets' = Append(rets, e) /\ UNCHANGED <<harness, exc, failedAt>>

\* mutant: the teardown is skipped after an error
main_finally_skipAfterError ==
    /\ pc = "main_finally"
    /\ IF mongo_client # "None" /\ exc = NoErr THEN Goto("fin_prompt") ELSE EndMain(NoErr)
    /\ UNCHANGED <<initv, store, cnt, cfgv, movies, existing_indexes, idxlog, waitv, qv>>

\* finally: if mongo_client: ...
main_finally ==
    /\ pc = "main_finally"
    /\ IF mongo_client # "None" THEN Goto("fin_prompt") ELSE EndMain(NoErr)
    /\ UNCHANGED <<initv, store, cnt, cfgv, movies, existing_indexes, idxlog, waitv, qv>>

\* user_input = input(...).lower(); if user_input == 'yes'
fin_prompt ==
    /\ pc = "fin_prompt"
    /\ Bump("input")
    /\ \/ \E a \in PromptAnswers :
            /\ user_input' = Lower(a)
            /\ IF Lower(a) = Yes THEN Goto("fin_drop") ELSE Goto("fin_close")
       \/ EndMain(EOFErr) /\ UNCHANGED user_input
    /\ UNCHANGED <<initv, store, cfgv, movies, existing_indexes, idxlog, waitv,
                   results, out, diag>>

\* mongo_client[DB_NAME][COLLECTION_NAME].drop()
fin_drop ==
    /\ pc = "fin_drop"
    /\ Bump("teardown_drop")
    /\ \/ /\ collExists' = FALSE /\ docs' = <<>> /\ searchIdx' = {}
          /\ Goto("fin_close")
       \/ /\ \E e \in StoreErrors : EndMain(e)
          /\ UNCHANGED store
    /\ UNCHANGED <<initv, cfgv, movies, existing_indexes, idxlog, waitv, qv>>

\* mongo_client.close()
fin_close ==
    /\ pc = "fin_close"
    /\ Bump("close")
    /\ EndMain(NoErr)
    /\ UNCHANGED <<initv, store, cfgv, movies, existing_indexes, idxlog, waitv, qv>>

\* ------------------------------------------------------------ direct calls
\* the driver of a helper: calls it a second time, or is done
h_ret ==
    /\ pc = "h_ret"
    /\ IF harness \in {"seed2", "idx2"} /\ Len(rets) < 2
       THEN /\ pc' = StartPc(harness)
            /\ exc' = NoErr /\ failedAt' = ""
            /\ cnt' = ZeroCnt /\ movies' = <<>> /\ existing_indexes' = {}
            /\ polled' = {} /\ waited' = {}
       ELSE /\ pc' = "done"
            /\ UNCHANGED <<exc, failedAt, cnt, movies, existing_indexes, idxlog>>
    /\ UNCHANGED <<harness, rets, initv, store, cfgv, waitv, qv>>

Next ==
    \/ cc_getenv \/ cc_client \/ cc_ping \/ cc_return
    \/ sd_check \/ sd_count \/ sd_drop \/ sd_embed \/ sd_insert
    \/ w_check \/ w_poll \/ w_sleep
    \/ ci_list \/ ci_text \/ ci_vec
    \/ q_embed \/ q_aggregate \/ q_render
    \/ main_except \/ main_finally \/ fin_prompt \/ fin_drop \/ fin_close
    \/ h_ret

Spec == Init /\ [][Next]_vars

TypeOK ==
    /\ harness \in Harnesses
    /\ cnt \in [CallNames -> Nat]
    /\ w_elapsed \in Nat /\ w_polls \in Nat
    /\ Len(rets) <= 2 /\ Len(diag) <= 1

\* ================================================================== claims
Ended == pc = "done"
MainRun == harness = "main"
InFinally == pc \in {"main_finally", "fin_prompt", "fin_drop", "fin_close", "done"}

\* C1: in every run of main in which configure_clients created a MongoClient,
\* close() has been called on it exactly once when main ends, whatever the
\* exit path (as claimed; the code breaks it).
C1_ReleasedExactlyOnce ==
    (MainRun /\ Ended /\ cfg_client = "client") => cnt["close"] = 1

WaitEnded == harness = "poll" /\ pc \in {"h_ret", "done"}
C3_PollTimeout ==
    (harness = "poll" /\ source.mode = "never") =>
        /\ WaitEnded => (rets = <<TimeoutErr>> /\ w_elapsed >= w_timeout)
        /\ (w_elapsed >= w_timeout) => (pc = "w_check" \/ WaitEnded)
        /\ (pc \in {"w_poll", "w_sleep"}) => w_elapsed < w_timeout
        /\ (WaitEnded /\ w_elapsed > 0) => w_elapsed - SleepInterval < w_timeout

\* a never-ready source timed out after at least two sleeps
C3_Witness ==
    /\ WaitEnded /\ source.mode = "never" /\ rets = <<TimeoutErr>>
    /\ w_timeout > SleepInterval /\ w_polls >= 2 /\ w_elapsed >= w_timeout

\* C4 as claimed: for every N, a source that is not ready for the first N
\* polls and ready afterwards makes wait_for_index return successfully after
\* at least N x 5 units of sleep.
C4_ReadyAfterNAlwaysReturns ==
    (WaitEnded /\ source.mode = "after") =>
        (rets = <<NoErr>> /\ IsReady(indexes) /\ w_elapsed >= source.n * SleepInterval)

\* C4 as amended: for every N with N x 5 below the timeout, the call returns
\* successfully at poll N+1, having observed the ready state and having slept
\* N x 5 units; for N x 5 at or above the timeout it raises TimeoutError
\* without having observed the ready state.
C4_ReadyAfterNWithinBudget ==
    (WaitEnded /\ source.mode = "after") =>
        IF source.n * SleepInterval < w_timeout
        THEN /\ rets = <<NoErr>> /\ IsReady(indexes)
             /\ w_polls = source.n + 1
             /\ w_elapsed >= source.n * SleepInterval
        ELSE rets = <<TimeoutErr>> /\ ~IsReady(indexes)

\* two not-ready polls, then ready: returned after 10 units of sleep
C4_Witness ==
    /\ WaitEnded /\ source.mode = "after" /\ source.n = 2
    /\ rets = <<NoErr>> /\ w_elapsed = 2 * SleepInterval

\* C5: setup_database called twice in a row on an absent or empty collection,
\* the first call returning: from the first return on the collection holds
\* exactly the 5 sample records once, and the second call issues no drop, no
\* embedding request and no insert.
FirstReturned == Len(rets) >= 1 /\ rets[1] = NoErr
InSecondCall == Len(rets) = 2 \/ (Len(rets) = 1 /\ pc # "h_ret")
C5_SeedIdempotent ==
    (harness = "seed2" /\ init_coll \in {"absent", "empty"} /\ FirstReturned) =>
        /\ collExists /\ docs = SampleDocs
        /\ InSecondCall =>
               (cnt["drop"] = 0 /\ cnt["embed"] = 0 /\ cnt["insert_many"] = 0)

\* both calls returned, starting from an absent collection
C5_Witness ==
    /\ harness = "seed2" /\ init_coll = "absent" /\ Ended
    /\ rets = <<NoErr, NoErr>> /\ Len(docs) = NumMovies

\* C6: create_indexes_if_needed called twice in a row, the first call
\* returning: whatever indexes existed before, both named indexes are present
\* from the first return on and the second call issues no create_search_index.
C6_IndexEnsureIdempotent ==
    (harness = "idx2" /\ FirstReturned) =>
        /\ IndexNames \subseteq searchIdx
        /\ InSecondCall => (cnt["create_text"] = 0 /\ cnt["create_vector"] = 0)

\* both calls returned, starting without any index
C6_Witness ==
    /\ harness = "idx2" /\ init_idx = {} /\ Ended
    /\ rets = <<NoErr, NoErr>> /\ searchIdx = IndexNames

\* C7: when the connection URI or the API key is absent or empty,
\* configure_clients raises at the check and the run issues no call at all to
\* the store (no client is created, no ping) or to the embedding provider.
ConfigMissing == pc # "cc_getenv" /\ (Falsy(mongo_uri) \/ Falsy(azure_key))
C7_MissingConfigNoCalls ==
    (MainRun /\ ConfigMissing) =>
        /\ exc = ValueErr /\ failedAt = "cc_getenv"
        /\ cfg_client = "None" /\ mongo_client = "None"
        /\ cnt = ZeroCnt

\* the URI is set, the API key is not: the run ended
C7_Witness ==
    MainRun /\ Ended /\ ~Falsy(mongo_uri) /\ Falsy(azure_key) /\ Len(diag) = 1

\* C8 as claimed: the rendered lines are the returned documents in the same
\* order, truncated to the output limit of 5.
Min(a, b) == IF a < b THEN a ELSE b
Lines(rs) == [i \in DOMAIN rs |-> Line(rs[i])]
RenderDone == MainRun /\ InFinally /\ exc = NoErr
C8_RenderedTruncatedToLimit ==
    RenderDone => out = Lines(SubSeq(results, 1, Min(Len(results), PipelineLimit)))

\* C8 as amended: the rendered lines are always the leading returned
\* documents in the order returned, and when rendering completes they are all
\* of the returned documents: the runner neither re-sorts nor truncates (the
\* cap of 5 is the $limit stage sent to the store).
C8_RenderedInOrderReturned ==
    MainRun =>
        /\ Len(out) <= Len(results)
        /\ out = Lines(SubSeq(results, 1, Len(out)))
        /\ RenderDone => out = Lines(results)

\* six documents, scores not descending, all rendered
C8_Witness ==
    /\ RenderDone /\ Len(results) = MaxResults /\ Len(out) = MaxResults
    /\ results[1].score < results[2].score

\* C9: when main holds a client handle and the prompt is answered, the
\* collection drop is issued iff the lowercased answer is "yes", and the
\* connection is released after the prompt either way (as claimed; the code
\* breaks it).
C9_DropGuardThenRelease ==
    (MainRun /\ Ended /\ mongo_client # "None" /\ rets # <<EOFErr>>) =>
        /\ cnt["input"] = 1
        /\ (cnt["teardown_drop"] = 1 <=> user_input = Yes)
        /\ cnt["teardown_drop"] <= 1
        /\ cnt["close"] = 1

\* C10 as claimed: an aggregate failure for an unsupported fusion stage is
\* reported by a diagnostic different from the one for other store-operation
\* failures and from the catch-all one.
UnsupportedReported ==
    MainRun /\ failedAt = "q_aggregate" /\ exc = UnsupportedFusion /\ InFinally
C10_DistinctDiagnostic ==
    UnsupportedReported =>
        /\ Len(diag) = 1
        /\ diag[1].template # "FATAL ERROR"
        /\ diag[1].template # "An unexpected error occurred"

\* C10 as amended: an aggregate failure for an unsupported fusion stage is an
\* OperationFailure like any other store-operation failure: it is caught by
\* the same except clause and printed with the same FATAL ERROR diagnostic,
\* carrying the server's message; it differs only from the catch-all
\* unexpected-error diagnostic.
C10_ReportedAsFatalError ==
    UnsupportedReported =>
        diag = <<[template |-> "FATAL ERROR", text |-> UnrecognizedStage]>>

\* the unsupported-stage failure was printed and the run ended
C10_Witness ==
    UnsupportedReported /\ Ended /\ Len(diag) = 1 /\ cnt["aggregate"] = 1

\* C11 as claimed: no failure of a status query makes wait_for_index abort:
\* the call ends only by a successful return or by TimeoutError.
C11_NoQueryFailureAborts ==
    WaitEnded => rets \in {<<NoErr>>, <<TimeoutErr>>}

\* C11 as amended: a status query that raises OperationFailure is swallowed
\* and, like a not-ready answer, followed by one 5-unit sleep and the loop
\* test (another poll, or TimeoutError once the budget is used up); a status
\* query that raises any other error (ConnectionFailure) is not retried: the
\* error propagates out of wait_for_index.  The outcomes are a successful
\* return, TimeoutError, or that propagated error.
C11_OperationFailureRetried ==
    harness = "poll" =>
        /\ WaitEnded =>
              \/ rets \in {<<NoErr>>, <<TimeoutErr>>}
              \/ /\ rets = <<w_last>> /\ failedAt = "w_poll"
                 /\ w_last.class \notin {"None", "OperationFailure"}
        /\ w_last.class = "OperationFailure" =>
              \/ pc \in {"w_sleep", "w_check", "w_poll"}
              \/ WaitEnded /\ rets = <<TimeoutErr>>
        /\ pc = "w_sleep" => w_elapsed = SleepInterval * (w_polls - 1)
        /\ pc \in {"w_check", "w_poll"} => w_elapsed = SleepInterval * w_polls

\* a query raised OperationFailure, the call slept and is about to poll again
C11_Witness ==
    /\ harness = "poll" /\ pc = "w_poll" /\ w_last = OpFailure
    /\ w_polls >= 1 /\ w_elapsed = SleepInterval * w_polls

\* C12: wait_for_index returns success only after a status query of that
\* call returned a non-empty listing whose first entry has status READY or
\* queryable true; an empty listing or an entry with any other status and
\* queryable false never yields success: the call sleeps and goes on to the
\* loop test (another poll, or TimeoutError).
ReadyListing(ix) == ix # <<>> /\ (ix[1].status = "READY" \/ ix[1].queryable)
C12_SuccessOnlyWhenReady ==
    /\ waited \subseteq polled
    /\ harness = "poll" =>
        /\ (WaitEnded /\ rets = <<NoErr>>) =>
               (w_polls >= 1 /\ w_last = NoErr /\ ReadyListing(indexes)
                  /\ waited = {w_name})
        /\ (w_polls >= 1 /\ w_last = NoErr /\ ~ReadyListing(indexes)) =>
               /\ waited = {}
               /\ \/ pc \in {"w_sleep", "w_check", "w_poll"}
                  \/ WaitEnded /\ rets = <<TimeoutErr>>

\* success on an entry still BUILDING but queryable, after an earlier poll
C12_Witness ==
    /\ WaitEnded /\ rets = <<NoErr>> /\ w_polls >= 2
    /\ indexes = <<Entry("BUILDING", TRUE)>>

\* C13: in one call of create_indexes_if_needed, for each of the two index
\* names: a name in the listing taken at the start gets no creation request
\* and no status poll; a name absent from it gets exactly one creation
\* request, its status polls come only after that request, and the call
\* returns only after its wait returned; the vector index is handled only
\* after the text index was found listed or was created and waited for
\* successfully.
CreateCall(name) == IF name = TEXT_INDEX_NAME THEN "create_text" ELSE "create_vector"
Listed == cnt["list_search_indexes"] = 1 /\ pc # "ci_list" /\ failedAt # "ci_list"
InIndexCode == pc \in {"ci_list", "ci_text", "ci_vec", "w_check", "w_poll", "w_sleep"}
IndexesReturned ==
    \/ harness = "idx2" /\ pc \in {"h_ret", "done"} /\ rets[Len(rets)] = NoErr
    \/ /\ MainRun /\ cnt["list_search_indexes"] = 1 /\ ~InIndexCode
       /\ failedAt \in {"", "q_embed", "q_aggregate", "q_render"}
C13_IndexStepsInOrder ==
    harness \in {"idx2", "main"} =>
        /\ \A name \in IndexNames :
             /\ cnt[CreateCall(name)] <= 1
             /\ (Listed /\ name \in existing_indexes) =>
                    (cnt[CreateCall(name)] = 0 /\ name \notin polled)
             /\ cnt[CreateCall(name)] = 1 => (Listed /\ name \notin existing_indexes)
             /\ name \in polled => cnt[CreateCall(name)] = 1
             /\ (IndexesReturned /\ name \notin existing_indexes) =>
                    (cnt[CreateCall(name)] = 1 /\ name \in waited)
        /\ (pc = "ci_vec" \/ cnt["create_vector"] = 1) =>
               \/ TEXT_INDEX_NAME \in existing_indexes
               \/ cnt["create_text"] = 1 /\ TEXT_INDEX_NAME \in waited

\* the vector index was listed, the text index was not: one call returned
C13_Witness ==
    /\ harness = "idx2" /\ pc = "h_ret" /\ rets = <<NoErr>>
    /\ existing_indexes = {VECTOR_INDEX_NAME}
    /\ cnt["create_text"] = 1 /\ cnt["create_vector"] = 0
    /\ polled = {TEXT_INDEX_NAME}

\* C14: when setup_database does not take the skip path it drops the
\* collection first, then requests one embedding per sample record, and
\* calls insert_many at most once, with all 5 records each carrying its
\* embedding, only after all 5 embedding requests succeeded; when an
\* embedding request fails no record is inserted, the collection is left
\* without documents and the failure propagates to the caller.
Embedded(ms) == Cardinality({i \in DOMAIN ms : ms[i].plot_embedding = get_embedding(ms[i].title)})
C14_SeedAllOrNothing ==
    harness \in {"seed2", "main"} =>
        /\ cnt["drop"] <= 1 /\ cnt["embed"] <= NumMovies /\ cnt["insert_many"] <= 1
        /\ cnt["drop"] = 0 => (cnt["embed"] = 0 /\ cnt["insert_many"] = 0)
        /\ cnt["embed"] >= 1 => (cnt["drop"] = 1 /\ failedAt # "sd_drop")
        /\ Embedded(movies) = cnt["embed"] - (IF failedAt = "sd_embed" THEN 1 ELSE 0)
        /\ cnt["insert_many"] = 1 =>
               (cnt["embed"] = NumMovies /\ movies = SampleDocs /\ failedAt # "sd_embed")
        /\ (cnt["insert_many"] = 1 /\ failedAt # "sd_insert" /\ cnt["teardown_drop"] = 0) =>
               docs = SampleDocs
        /\ failedAt = "sd_embed" =>
               /\ exc = ProviderError /\ cnt["insert_many"] = 0 /\ docs = <<>>
               /\ IF harness = "main" THEN pc = "main_except" \/ InFinally
                  ELSE pc \in {"h_ret", "done"} /\ rets[Len(rets)] = ProviderError

\* the third embedding request failed: nothing inserted, the error returned
C14_Witness ==
    /\ harness = "seed2" /\ pc = "h_ret" /\ rets = <<ProviderError>>
    /\ failedAt = "sd_embed" /\ cnt["embed"] = 3 /\ cnt["drop"] = 1
    /\ cnt["insert_many"] = 0 /\ docs = <<>>

\* C15: in a run of main the aggregation query is executed at most once, and
\* it and the query embedding request are issued only after the ping
\* succeeded, setup_database returned and create_indexes_if_needed returned
\* with each required index either listed at its start or created and
\* waited for successfully in this run; after a failure of the
\* configuration, the seeding or the index setup (a poll timeout included)
\* neither is ever issued.
SetupReturned ==
    /\ cnt["list_collection_names"] = 1
    /\ \/ cnt["count_documents"] = 1 /\ cnt["drop"] = 0
       \/ cnt["insert_many"] = 1
QueryPhase == {"", "q_embed", "q_aggregate", "q_render"}
C15_QueryOnlyAfterSetup ==
    MainRun =>
        /\ cnt["aggregate"] <= 1 /\ cnt["query_embed"] <= 1
        /\ cnt["aggregate"] = 1 => (cnt["query_embed"] = 1 /\ failedAt # "q_embed")
        /\ (cnt["query_embed"] = 1 \/ cnt["aggregate"] = 1) =>
               /\ cnt["ping"] = 1 /\ mongo_client = "client"
               /\ SetupReturned
               /\ cnt["list_search_indexes"] = 1
               /\ \A name \in IndexNames :
                     \/ name \in existing_indexes
                     \/ cnt[CreateCall(name)] = 1 /\ name \in waited
               /\ failedAt \in QueryPhase
        /\ failedAt \notin QueryPhase =>
               (cnt["query_embed"] = 0 /\ cnt["aggregate"] = 0 /\ results = <<>>)

\* the text index was listed, the vector index created and waited for, and
\* the query ran
C15_Witness ==
    /\ MainRun /\ Ended /\ exc = NoErr /\ cnt["aggregate"] = 1
    /\ existing_indexes = {TEXT_INDEX_NAME} /\ waited = {VECTOR_INDEX_NAME}
    /\ cnt["create_vector"] = 1 /\ cnt["create_text"] = 0

====
